---- MODULE Spec2Model ----
(***************************************************************************)
(* A model of the mesh renderer of ivrigst: the Model struct of            *)
(* src/model.rs, the GPU resource wrappers of src/render_gl/buffer.rs and  *)
(* the OpenGL context they drive.                                          *)
(*                                                                         *)
(* Numbers are integers.  One unit of an f32 is half of f32::EPSILON, the  *)
(* spacing of the f32 grid in [0.5, 1), so that two f32 values can differ  *)
(* by less than f32::EPSILON, by exactly f32::EPSILON, or by more.         *)
(* Matrices and vectors are tuples of integers; a uniform that was never   *)
(* uploaded holds the empty tuple.                                         *)
(***************************************************************************)
EXTENDS Integers, Sequences, FiniteSets, TLC

VARIABLES self, gl, call

vars == <<self, gl, call>>

----------------------------------------------------------------------------
(* Bounds of the model. *)

\* The f32 values callers give a field lie 0 .. MaxF32Steps units above the
\* value the field has after construction.
MaxF32Steps == 2

\* At most MaxReloads shader rebuilds succeed in one behaviour.
MaxReloads == 1

\* The mesh files hold at most MaxVertices vertices.
MaxVertices == 3

----------------------------------------------------------------------------
(* Constants of the program. *)

F32_EPSILON == 2

F32_MAX == 1000000

\* f32::INFINITY, as the value next after f32::MAX.
F32_INFINITY == F32_MAX + 1

\* f32::NAN, as a value that is neither finite nor an infinity.
F32_NAN == F32_MAX + 2

HATCHING_FAR_PLANE == 1000

SHADOW_WIDTH == 2048

SHADOW_HEIGHT == 2048

TEXTURE_UNIT_SHADOW == 0

TEXTURE_UNIT_HATCH == 1

MAIN_SHADER_NAME == "model"

SHADOW_SHADER_NAME == "shadow"

HATCHING_SHADER_NAME == "hatching"

MAIN_SHADER_PATH == "shaders/model"

SHADOW_SHADER_PATH == "shaders/shadow"

HATCHING_SHADER_PATH == "shaders/hatching"

\* enum DistanceShadingChannel, by discriminant.
DistanceShadingChannel == 0 .. 3

----------------------------------------------------------------------------
(* Arithmetic on f32 values and on vectors of three of them. *)

F32Abs(x) == IF x < 0 THEN 0 - x ELSE x

F32Min(a, b) == IF a < b THEN a ELSE b

F32Max(a, b) == IF a > b THEN a ELSE b

\* A result beyond the largest finite f32 is an infinity, and an infinity
\* stays one when a finite value is added to it or when it is halved.
\* The sum of the two infinities is a NaN, and so is every result computed
\* from a NaN.
IsInfinite(x) == F32Abs(x) = F32_INFINITY

F32Round(x) == IF x > F32_MAX THEN F32_INFINITY ELSE IF x < 0 - F32_MAX THEN 0 - F32_INFINITY ELSE x

F32Add(a, b) ==
    IF a = F32_NAN \/ b = F32_NAN THEN F32_NAN
    ELSE IF IsInfinite(a) THEN (IF IsInfinite(b) /\ b # a THEN F32_NAN ELSE a)
    ELSE IF IsInfinite(b) THEN b
    ELSE F32Round(a + b)

F32Sub(a, b) == F32Add(a, IF b = F32_NAN THEN b ELSE 0 - b)

F32Half(a) == IF a = F32_NAN \/ IsInfinite(a) THEN a ELSE a \div 2

VSub(a, b) == <<F32Sub(a[1], b[1]), F32Sub(a[2], b[2]), F32Sub(a[3], b[3])>>

VAdd(a, b) == <<F32Add(a[1], b[1]), F32Add(a[2], b[2]), F32Add(a[3], b[3])>>

VHalf(a) == <<F32Half(a[1]), F32Half(a[2]), F32Half(a[3])>>

NormSquared(a) == a[1] * a[1] + a[2] * a[2] + a[3] * a[3]

\* The magnitude of a vector, the square root rounded down; a NaN when a
\* component is, else infinite when a component is.
Magnitude(a) ==
    IF F32_NAN \in {a[1], a[2], a[3]} THEN F32_NAN
    ELSE IF IsInfinite(a[1]) \/ IsInfinite(a[2]) \/ IsInfinite(a[3]) THEN F32_INFINITY
    ELSE CHOOSE r \in 0 .. (F32Abs(a[1]) + F32Abs(a[2]) + F32Abs(a[3])) :
            r * r <= NormSquared(a) /\ NormSquared(a) < (r + 1) * (r + 1)

----------------------------------------------------------------------------
(* The OpenGL context. *)

Unset == <<>>

AttributeUniforms == {"projection_matrix", "camera_position", "color", "model_size", "distance_shading_power", "toon_factor", "distance_shading_channel", "shadow_intensity", "vertex_color_mix", "hatching_intensity", "hatching_frequency", "replace_shadows_with_hatching"}

FrameUniforms == {"distance_shading_closest", "distance_shading_furthest", "light_space_matrix", "hatch_space_matrix", "light_vector", "hatching_far_plane"}

ShadowUniforms == {"lightSpaceMatrix"}

HatchingUniforms == {"hatching_depth", "steps", "projection_matrix", "far_plane"}

UniformNames == AttributeUniforms \cup FrameUniforms \cup ShadowUniforms \cup HatchingUniforms

NumInitialPrograms == 3

ProgramIds == 1 .. (NumInitialPrograms + MaxReloads)

NoUniforms == [n \in UniformNames |-> Unset]

\* The context before Model::new: nothing allocated, nothing bound, every
\* capability at its OpenGL default.
FreshGL ==
    [used |-> 0, program_names |-> 0, programs |-> {}, deleted_programs |-> {},
     uniforms |-> [p \in ProgramIds |-> NoUniforms],
     buffer_names |-> 0, buffers |-> {}, buffer_len |-> <<0, 0>>,
     array_buffer |-> 0,
     vertex_array_names |-> 0, vertex_arrays |-> {}, vertex_array |-> 0,
     element_array_buffer |-> [v \in 0 .. 1 |-> 0],
     texture_names |-> 0, textures |-> {},
     active_texture |-> 0, texture_2d |-> [u \in 0 .. 1 |-> 0],
     compare_mode |-> [t \in 0 .. 2 |-> "NONE"],
     framebuffer_names |-> 0, framebuffers |-> {}, framebuffer |-> 0,
     depth_attachment |-> [f \in 0 .. 2 |-> 0],
     cull_face |-> FALSE, cull_mode |-> "BACK", blend |-> FALSE,
     depth_test |-> FALSE, depth_func |-> "LESS", viewport |-> <<0, 0>>,
     buffer_data |-> <<<<>>, <<>>>>, releases |-> <<>>, stale |-> {},
     trace |-> <<>>]

\* What is bound and enabled at the moment a call is issued.
Bindings(g) ==
    [used |-> g.used, framebuffer |-> g.framebuffer,
     vertex_array |-> g.vertex_array,
     element_array_buffer |-> g.element_array_buffer[g.vertex_array],
     texture_2d |-> g.texture_2d, compare_mode |-> g.compare_mode,
     cull_face |-> g.cull_face, cull_mode |-> g.cull_mode, blend |-> g.blend,
     depth_test |-> g.depth_test, depth_func |-> g.depth_func,
     viewport |-> g.viewport]

Event(g, kind, program, name, value) ==
    [kind |-> kind, program |-> program, name |-> name, value |-> value, at |-> Bindings(g)]

\* The calls of one operation are recorded from an empty trace.
ClearTrace(g) == [g EXCEPT !.trace = <<>>]

IsDraw(e) == e.kind = "draw"

IsRebuild(e) == e.kind = "from_res"

Draws(g) == SelectSeq(g.trace, IsDraw)

Rebuilds(g) == SelectSeq(g.trace, IsRebuild)

\* glEnable / glDisable of a capability, glDepthFunc, glCullFace, glViewport.
Enable(g, cap) ==
    CASE cap = "CULL_FACE" -> [g EXCEPT !.cull_face = TRUE]
      [] cap = "BLEND" -> [g EXCEPT !.blend = TRUE]
      [] cap = "DEPTH_TEST" -> [g EXCEPT !.depth_test = TRUE]

\* A glDisable that leaves face culling as it is.
Disable_ExceptCullFace(g, cap) ==
    CASE cap = "CULL_FACE" -> g
      [] cap = "BLEND" -> [g EXCEPT !.blend = FALSE]
      [] cap = "DEPTH_TEST" -> [g EXCEPT !.depth_test = FALSE]

Disable(g, cap) ==
    CASE cap = "CULL_FACE" -> [g EXCEPT !.cull_face = FALSE]
      [] cap = "BLEND" -> [g EXCEPT !.blend = FALSE]
      [] cap = "DEPTH_TEST" -> [g EXCEPT !.depth_test = FALSE]

DepthFunc(g, f) == [g EXCEPT !.depth_func = f]

CullFace(g, mode) == [g EXCEPT !.cull_mode = mode]

Viewport(g, width, height) == [g EXCEPT !.viewport = <<width, height>>]

\* A draw that takes its count for a number of triangles.
DrawElements_Triangles(g, count) == [g EXCEPT !.trace = Append(@, Event(g, "draw", g.used, "TRIANGLES", <<count \div 3>>))]

\* glClear(DEPTH_BUFFER_BIT) and glDrawElements(TRIANGLES, count, ...).
Clear(g) == [g EXCEPT !.trace = Append(@, Event(g, "clear", g.used, "DEPTH_BUFFER_BIT", <<>>))]

DrawElements(g, count) == [g EXCEPT !.trace = Append(@, Event(g, "draw", g.used, "TRIANGLES", <<count>>))]

----------------------------------------------------------------------------
(* render_gl::Program, an external collaborator (spec.md, section 6). *)

\* Program::from_res: on success a freshly linked program, which holds no
\* uniform state; on failure no program.
from_res(g0, path, ok) ==
    LET g == [g0 EXCEPT !.trace = Append(@, Event(g0, "from_res", 0, path, <<>>))]
        id == g.program_names + 1
    IN IF ok
       THEN [ok |-> TRUE, program |-> id,
             g |-> [g EXCEPT !.program_names = id, !.programs = @ \cup {id},
                             !.uniforms[id] = NoUniforms]]
       ELSE [ok |-> FALSE, program |-> 0, g |-> g]

\* Drop for Program: the program object is released.
drop_program(g, p) ==
    [g EXCEPT !.programs = @ \ {p}, !.deleted_programs = @ \cup {p},
              !.uniforms[p] = NoUniforms]

set_used(g, p) == [g EXCEPT !.used = p]

unset_used(g, p) == [g EXCEPT !.used = 0]

\* A uniform upload addressed to program p.  OpenGL writes the uniform of the
\* program in use, so the value arrives only while p is the one in use.
set_uniform(g, p, name, value) ==
    [g EXCEPT !.uniforms[p][name] = IF g.used = p THEN value ELSE @,
              !.trace = Append(@, Event(g, "uniform", p, name, value))]

set_uniform_matrix4(g, p, name, m) == set_uniform(g, p, name, m)

set_uniform_3f_na(g, p, name, v) == set_uniform(g, p, name, v)

set_uniform_3f(g, p, name, v) == set_uniform(g, p, name, <<v[1], v[2], v[3]>>)

set_uniform_f(g, p, name, x) == set_uniform(g, p, name, <<x>>)

set_uniform_ui(g, p, name, n) == set_uniform(g, p, name, <<n>>)

\* `as u32` of a bool.
BoolAsU32(b) == IF b THEN 1 ELSE 0

----------------------------------------------------------------------------
(* src/render_gl/buffer.rs *)

\* The names used after their release, with one more use: a glBind* or an
\* attachment of a name that was generated and deleted.
StaleUse(g, live, kind, id) ==
    IF id = 0 \/ id \in live THEN g.stale ELSE g.stale \cup {<<kind, id>>}

\* Buffer::new: glGenBuffers gives the next unused name, which is
\* buffer_names of the context returned.
Buffer_new(g) == [g EXCEPT !.buffer_names = @ + 1, !.buffers = @ \cup {g.buffer_names + 1}]

\* Buffer::bind that binds nothing to the element-array target.
Buffer_bind_ArrayOnly(g, target, id) ==
    IF target = "ARRAY_BUFFER"
    THEN [g EXCEPT !.array_buffer = id, !.stale = StaleUse(g, g.buffers, "buffer", id)]
    ELSE g

\* Buffer::bind; target is "ARRAY_BUFFER" or "ELEMENT_ARRAY_BUFFER".
Buffer_bind(g, target, id) ==
    IF target = "ARRAY_BUFFER"
    THEN [g EXCEPT !.array_buffer = id, !.stale = StaleUse(g, g.buffers, "buffer", id)]
    ELSE [g EXCEPT !.element_array_buffer[g.vertex_array] = id, !.stale = StaleUse(g, g.buffers, "buffer", id)]

Buffer_unbind(g, target) == Buffer_bind(g, target, 0)

BoundBuffer(g, target) ==
    IF target = "ARRAY_BUFFER" THEN g.array_buffer ELSE g.element_array_buffer[g.vertex_array]

\* Buffer::static_draw_data: the data goes to the buffer bound to the target.
Buffer_static_draw_data(g, target, data) ==
    IF BoundBuffer(g, target) = 0 THEN g
    ELSE [g EXCEPT !.buffer_len[BoundBuffer(g, target)] = Len(data),
                   !.buffer_data[BoundBuffer(g, target)] = data]

\* Drop for Buffer: unbind, then glDeleteBuffers.
Buffer_drop(g, target, id) ==
    [Buffer_unbind(g, target) EXCEPT !.buffers = @ \ {id}, !.releases = Append(@, <<"buffer", id>>)]

VertexArray_new(g) == [g EXCEPT !.vertex_array_names = @ + 1, !.vertex_arrays = @ \cup {g.vertex_array_names + 1}]

VertexArray_bind(g, id) == [g EXCEPT !.vertex_array = id, !.stale = StaleUse(g, g.vertex_arrays, "vertex_array", id)]

VertexArray_unbind(g) == [g EXCEPT !.vertex_array = 0]

\* Drop for VertexArray: unbind, then glDeleteVertexArrays.
VertexArray_drop(g, id) ==
    [VertexArray_unbind(g) EXCEPT !.vertex_arrays = @ \ {id}, !.releases = Append(@, <<"vertex_array", id>>)]

\* Texture::new: the context after glGenTextures.  The Texture value holds
\* the name given and its home unit.
Texture_new(g) == [g EXCEPT !.texture_names = @ + 1, !.textures = @ \cup {g.texture_names + 1}]

Texture(texture_id, texture_unit) == [texture_id |-> texture_id, texture_unit |-> texture_unit]

Texture_bind(g, t) ==
    [g EXCEPT !.active_texture = t.texture_unit, !.texture_2d[t.texture_unit] = t.texture_id,
              !.stale = StaleUse(g, g.textures, "texture", t.texture_id)]

\* A bind_to without the glActiveTexture of line 179.
Texture_bind_to_ActiveUnit(g, t, texture_unit) ==
    [g EXCEPT !.texture_2d[g.active_texture] = t.texture_id]

Texture_bind_to(g, t, texture_unit) ==
    [g EXCEPT !.active_texture = texture_unit, !.texture_2d[texture_unit] = t.texture_id,
              !.stale = StaleUse(g, g.textures, "texture", t.texture_id)]

\* An unbind without the glActiveTexture of line 186.
Texture_unbind_ActiveUnit(g, t) == [g EXCEPT !.texture_2d[g.active_texture] = 0]

Texture_unbind(g, t) ==
    [g EXCEPT !.active_texture = t.texture_unit, !.texture_2d[t.texture_unit] = 0]

\* Drop for Texture: glDeleteTextures, with no unbind; a deleted texture is
\* no longer bound at any unit of the context.
Texture_drop(g, t) ==
    [g EXCEPT !.textures = @ \ {t.texture_id}, !.releases = Append(@, <<"texture", t.texture_id>>),
              !.texture_2d = [u \in DOMAIN @ |-> IF @[u] = t.texture_id THEN 0 ELSE @[u]]]

\* glTexParameteri(TEXTURE_2D, TEXTURE_COMPARE_MODE, mode): acts on the
\* texture bound at the active unit.
TexCompareMode(g, mode) ==
    [g EXCEPT !.compare_mode[g.texture_2d[g.active_texture]] = mode]

Texture_load_texture(g, t) == TexCompareMode(Texture_bind(g, t), "COMPARE_REF_TO_TEXTURE")

\* A set_texture_compare_mode that enables the comparison whatever the mode.
Texture_set_texture_compare_mode_Always(g, t, mode) == TexCompareMode(g, "COMPARE_REF_TO_TEXTURE")

\* Texture::set_texture_compare_mode: like set_border_color, a parameter of
\* the texture bound at the active unit.
Texture_set_texture_compare_mode(g, t, mode) == TexCompareMode(g, mode)

FrameBuffer_new(g) == [g EXCEPT !.framebuffer_names = @ + 1, !.framebuffers = @ \cup {g.framebuffer_names + 1}]

FrameBuffer_bind(g, id) == [g EXCEPT !.framebuffer = id, !.stale = StaleUse(g, g.framebuffers, "framebuffer", id)]

FrameBuffer_unbind(g) == [g EXCEPT !.framebuffer = 0]

\* Drop for FrameBuffer: unbind, then glDeleteFramebuffers.
FrameBuffer_drop(g, id) ==
    [FrameBuffer_unbind(g) EXCEPT !.framebuffers = @ \ {id}, !.releases = Append(@, <<"framebuffer", id>>)]

FrameBuffer_set_type(g, id) == FrameBuffer_bind(g, id)

FrameBuffer_bind_texture(g, id, t) ==
    [FrameBuffer_bind(g, id) EXCEPT !.depth_attachment[id] = t.texture_id,
                                    !.stale = StaleUse(FrameBuffer_bind(g, id), g.textures, "texture", t.texture_id)]

----------------------------------------------------------------------------
(* src/model.rs: Attributes *)

\* impl Default for Attributes.  Default::default() of a matrix, a vector and
\* an f32 is zero.
DefaultAttributes ==
    [projection_matrix |-> <<0>>,
     camera_position |-> <<0, 0, 0>>,
     light_position |-> <<45, 25, 60>>,
     color |-> <<100, 56, 72>>,
     model_size |-> 0,
     distance_shading_power |-> 4,
     toon_factor |-> 7,
     distance_shading_channel |-> 0,
     shadow_intensity |-> 6,
     shadows_follow |-> FALSE,
     shadows_orbit_radius |-> 250,
     elapsed |-> 0,
     vertex_color_mix |-> 10,
     hatching_depth |-> 10,
     hatching_steps |-> 150,
     hatching_frequency |-> 4,
     hatching_intensity |-> 5,
     replace_shadows_with_hatching |-> TRUE]

AttributeFields == DOMAIN DefaultAttributes

\* The f32 fields that set_attributes compares through a difference.
F32Uniforms == {"model_size", "distance_shading_power", "toon_factor", "shadow_intensity", "vertex_color_mix", "hatching_intensity"}

\* The fields no uniform of the main program is uploaded from by
\* set_attributes.
HostOnlyFields == {"light_position", "shadows_follow", "shadows_orbit_radius", "elapsed", "hatching_depth", "hatching_steps"}

\* The values a caller gives a field, next to the value base of the field.
FieldValues(base, f) ==
    CASE f = "projection_matrix" -> {<<0>>, <<1>>}
      [] f = "camera_position" -> {<<0, 0, 0>>, <<0, 0, 10>>, <<0, 0, -10>>}
      [] f = "light_position" -> {<<45, 25, 60>>, <<0, 50, 0>>}
      [] f = "color" -> {<<100, 56, 72>>, <<0, 0, 100>>}
      [] f \in F32Uniforms -> {base[f] + d : d \in 0 .. MaxF32Steps}
      [] f = "distance_shading_channel" -> DistanceShadingChannel
      [] f \in {"shadows_follow", "replace_shadows_with_hatching"} -> BOOLEAN
      [] f = "shadows_orbit_radius" -> {250, 100}
      [] f = "elapsed" -> {0, 500}
      [] f = "hatching_depth" -> {10, 7}
      [] f = "hatching_steps" -> {150, 100}
      [] f = "hatching_frequency" -> {4, 8}

\* The snapshots that differ from base in at most one of the fields.
SingleEdits(base, fields) ==
    {base} \cup UNION {{[base EXCEPT ![f] = v] : v \in FieldValues(base, f)} : f \in fields}

----------------------------------------------------------------------------
(* src/model.rs: Model::new *)

\* What Resources::load_model gives: flat arrays, three numbers a vertex.
Meshes ==
    {[positions |-> <<0, 0, 0, 4, 0, 0, 0, 4, 2>>,
      normals |-> <<0, 0, 1, 0, 0, 1, 0, 0, 1>>,
      vertex_color |-> <<1, 1, 1, 1, 1, 1, 1, 1, 1>>,
      indices |-> <<0, 1, 2>>],
     [positions |-> <<-1, 2, 0, 3, 2, 0, 3, 8, 12, -1, 8, 12>>,
      normals |-> <<0, 0, 1, 0, 0, 1, 0, 0, 1, 0, 0, 1>>,
      vertex_color |-> <<1, 0, 0, 0, 1, 0, 0, 0, 1, 1, 1, 1>>,
      indices |-> <<0, 1, 2, 0, 2, 3>>]}

\* The vertices the models of the mesh files are made of.
Points == {<<0, 0, 0>>, <<4, 0, 0>>, <<0, 4, 2>>, <<-2, 6, -4>>}

\* A model of the vertices vs, with one triangle when there are three of
\* them.
MeshOf(vs) ==
    [positions |-> [i \in 1 .. 3 * Len(vs) |-> vs[((i - 1) \div 3) + 1][((i - 1) % 3) + 1]],
     normals |-> [i \in 1 .. 3 * Len(vs) |-> IF i % 3 = 0 THEN 1 ELSE 0],
     vertex_color |-> [i \in 1 .. 3 * Len(vs) |-> 1],
     indices |-> IF Len(vs) >= 3 THEN <<0, 1, 2>> ELSE <<>>]

\* What Resources::load_model gives for the mesh files of at most
\* MaxVertices vertices, the file of no vertex included.
LoadableMeshes == {MeshOf(vs) : vs \in UNION {[1 .. n -> Points] : n \in 0 .. MaxVertices}}

\* chunks_exact(3): the i-th chunk, and how many there are.
Chunk(s, i) == <<s[3 * i - 2], s[3 * i - 1], s[3 * i]>>

NumChunks(s) == Len(s) \div 3

RECURSIVE BoundsOf(_, _)
\* The fold of lines 143-152 over the first n positions: <<min, max>>.
BoundsOf(positions, n) ==
    IF n = 0 THEN <<<<F32_MAX, F32_MAX, F32_MAX>>, <<0 - F32_MAX, 0 - F32_MAX, 0 - F32_MAX>>>>
    ELSE LET b == BoundsOf(positions, n - 1)
             pos == Chunk(positions, n)
         IN <<[i \in 1 .. 3 |-> F32Min(b[1][i], pos[i])], [i \in 1 .. 3 |-> F32Max(b[2][i], pos[i])]>>

\* Lines 156-169: the vertices uploaded, positions re-centred.
Vertices(model, center) ==
    [i \in 1 .. F32Min(NumChunks(model.positions), F32Min(NumChunks(model.normals), NumChunks(model.vertex_color))) |->
        [pos |-> VSub(Chunk(model.positions, i), center),
         normal |-> Chunk(model.normals, i),
         color |-> Chunk(model.vertex_color, i)]]

\* reset_all_attributes, lines 336-361: every attribute uniform is uploaded
\* to the main program.
reset_all_uploads(g, program, att) ==
    LET g1 == set_uniform_matrix4(g, program, "projection_matrix", att.projection_matrix)
        g2 == set_uniform_3f_na(g1, program, "camera_position", att.camera_position)
        g3 == set_uniform_3f_na(g2, program, "color", att.color)
        g4 == set_uniform_f(g3, program, "model_size", att.model_size)
        g5 == set_uniform_f(g4, program, "distance_shading_power", att.distance_shading_power)
        g6 == set_uniform_f(g5, program, "toon_factor", att.toon_factor)
        g7 == set_uniform_ui(g6, program, "distance_shading_channel", att.distance_shading_channel)
        g8 == set_uniform_f(g7, program, "shadow_intensity", att.shadow_intensity)
        g9 == set_uniform_f(g8, program, "vertex_color_mix", att.vertex_color_mix)
        g10 == set_uniform_f(g9, program, "hatching_intensity", att.hatching_intensity)
        g11 == set_uniform_ui(g10, program, "hatching_frequency", att.hatching_frequency)
    IN set_uniform_ui(g11, program, "replace_shadows_with_hatching", BoolAsU32(att.replace_shadows_with_hatching))

\* reset_all_attributes without the set_used of line 332.
reset_all_attributes_NotUsed(g, this) ==
    unset_used(reset_all_uploads(g, this.program, this.attributes), this.program)

\* Model::reset_all_attributes(&self): the context it leaves.
reset_all_attributes(g, this) ==
    unset_used(reset_all_uploads(set_used(g, this.program), this.program, this.attributes), this.program)

\* Lines 143-169 and 231-245: the Model that Model::new returns, given the
\* context it starts from; every glGen* and every program build gives the
\* next unused name.
NewModel(g0, model) ==
    LET bounds == BoundsOf(model.positions, NumChunks(model.positions))
    IN [program |-> g0.program_names + 1,
        shadow_program |-> g0.program_names + 2,
        hatching_program |-> g0.program_names + 3,
        vbo |-> g0.buffer_names + 1,
        vao |-> g0.vertex_array_names + 1,
        ibo |-> g0.buffer_names + 2,
        indices |-> Len(model.indices),
        size |-> VSub(bounds[2], bounds[1]),
        center |-> VAdd(bounds[1], VHalf(VSub(bounds[2], bounds[1]))),
        attributes |-> [DefaultAttributes EXCEPT !.model_size = Magnitude(VSub(bounds[2], bounds[1]))],
        depth_map |-> Texture(g0.texture_names + 1, TEXTURE_UNIT_SHADOW),
        depth_map_fbo |-> g0.framebuffer_names + 1,
        hatch_map |-> Texture(g0.texture_names + 2, TEXTURE_UNIT_HATCH),
        hatch_map_fbo |-> g0.framebuffer_names + 2]

\* Lines 188-206 and 213-229: a depth texture and the framebuffer it is
\* attached to.
NewRenderTarget(g0, texture, fbo) ==
    LET g1 == Texture_load_texture(Texture_new(g0), texture)
        g2 == FrameBuffer_bind(FrameBuffer_new(g1), fbo)
    IN FrameBuffer_unbind(FrameBuffer_bind_texture(FrameBuffer_set_type(g2, fbo), fbo, texture))

\* Lines 170-185: the vertex buffer, the vertex array and the index buffer.
NewMesh(g0, value, model) ==
    LET g1 == Buffer_new(g0)
        g2 == Buffer_static_draw_data(Buffer_bind(g1, "ARRAY_BUFFER", value.vbo), "ARRAY_BUFFER", Vertices(model, value.center))
        g3 == Buffer_new(VertexArray_bind(VertexArray_new(g2), value.vao))
        g4 == Buffer_static_draw_data(Buffer_bind(g3, "ELEMENT_ARRAY_BUFFER", value.ibo), "ELEMENT_ARRAY_BUFFER", model.indices)
    IN VertexArray_unbind(Buffer_unbind(Buffer_unbind(g4, "ELEMENT_ARRAY_BUFFER"), "ARRAY_BUFFER"))

\* Lines 189-206: the shadow program is put in use and the shadow render
\* target is made.
NewShadowTarget(g0, value) ==
    NewRenderTarget(set_used(g0, value.shadow_program), value.depth_map, value.depth_map_fbo)

\* Model::new with a model that loads and three programs that build: the
\* Model returned and the context left.
Model_new(g0, model) ==
    LET value == NewModel(g0, model)
        g5 == NewMesh(from_res(g0, MAIN_SHADER_PATH, TRUE).g, value, model)
        g7 == NewShadowTarget(from_res(g5, SHADOW_SHADER_PATH, TRUE).g, value)
        g8 == NewRenderTarget(from_res(g7, HATCHING_SHADER_PATH, TRUE).g, value.hatch_map, value.hatch_map_fbo)
    IN [value |-> value, g |-> reset_all_attributes(g8, value)]

\* The absence of a Model: what the caller holds before Model::new, after an
\* Err and after the Model is dropped.
NoModel ==
    [program |-> 0, shadow_program |-> 0, hatching_program |-> 0,
     vbo |-> 0, vao |-> 0, ibo |-> 0, indices |-> 0,
     size |-> <<0, 0, 0>>, center |-> <<0, 0, 0>>, attributes |-> DefaultAttributes,
     depth_map |-> Texture(0, 0), depth_map_fbo |-> 0,
     hatch_map |-> Texture(0, 0), hatch_map_fbo |-> 0]

\* What the steps of Model::new that can fail do: each is TRUE when the step
\* succeeds.
Outcomes == [main : BOOLEAN, model : BOOLEAN, shadow : BOOLEAN, hatching : BOOLEAN]

\* The `?` of line 188: the locals are dropped in the reverse of the order of
\* their declaration: ibo, vao, vbo, program.
UnwindMesh(g, value) ==
    drop_program(Buffer_drop(VertexArray_drop(Buffer_drop(g, "ELEMENT_ARRAY_BUFFER", value.ibo), value.vao), "ARRAY_BUFFER", value.vbo), value.program)

\* The `?` of line 213: depth_map_fbo, depth_map and shadow_program are
\* dropped, then the locals of the `?` of line 188.
UnwindShadowTarget(g, value) ==
    UnwindMesh(drop_program(Texture_drop(FrameBuffer_drop(g, value.depth_map_fbo), value.depth_map), value.shadow_program), value)

\* Model::new without the `?` of line 213: the outcome of the build of the
\* hatching program is not looked at.
Model_new_Result_FirstThreeSteps(g0, model, ok) ==
    IF ok.main /\ ok.model /\ ok.shadow
    THEN [ok |-> TRUE, value |-> Model_new(g0, model).value, g |-> Model_new(g0, model).g]
    ELSE [ok |-> FALSE, value |-> NoModel, g |-> from_res(g0, MAIN_SHADER_PATH, FALSE).g]

\* Model::new(res, filename) -> Result<Self>: whether it is Ok, the Model
\* returned and the context left.  The model is loaded only after the main
\* program was built, and every `?` returns the first error.
Model_new_Result(g0, model, ok) ==
    IF ~ok.main
    THEN [ok |-> FALSE, value |-> NoModel, g |-> from_res(g0, MAIN_SHADER_PATH, FALSE).g]
    ELSE IF ~ok.model
    THEN [ok |-> FALSE, value |-> NoModel,
          g |-> drop_program(from_res(g0, MAIN_SHADER_PATH, TRUE).g, NewModel(g0, model).program)]
    ELSE IF ~ok.shadow
    THEN [ok |-> FALSE, value |-> NoModel,
          g |-> UnwindMesh(from_res(NewMesh(from_res(g0, MAIN_SHADER_PATH, TRUE).g, NewModel(g0, model), model), SHADOW_SHADER_PATH, FALSE).g, NewModel(g0, model))]
    ELSE IF ~ok.hatching
    THEN [ok |-> FALSE, value |-> NoModel,
          g |-> UnwindShadowTarget(from_res(NewShadowTarget(from_res(NewMesh(from_res(g0, MAIN_SHADER_PATH, TRUE).g, NewModel(g0, model), model), SHADOW_SHADER_PATH, TRUE).g, NewModel(g0, model)), HATCHING_SHADER_PATH, FALSE).g, NewModel(g0, model))]
    ELSE [ok |-> TRUE, value |-> Model_new(g0, model).value, g |-> Model_new(g0, model).g]

\* A drop of the Model that forgets the two textures.
Model_drop_KeepsTextures(g, this) ==
    LET g1 == drop_program(drop_program(drop_program(g, this.program), this.shadow_program), this.hatching_program)
        g2 == Buffer_drop(Buffer_drop(VertexArray_drop(g1, this.vao), "ARRAY_BUFFER", this.vbo), "ELEMENT_ARRAY_BUFFER", this.ibo)
    IN FrameBuffer_drop(FrameBuffer_drop(g2, this.depth_map_fbo), this.hatch_map_fbo)

\* The drop of a Model: its fields are dropped in the order of their
\* declaration in the struct.
Model_drop(g, this) ==
    LET g1 == drop_program(drop_program(drop_program(g, this.program), this.shadow_program), this.hatching_program)
        g2 == Buffer_drop(Buffer_drop(VertexArray_drop(g1, this.vao), "ARRAY_BUFFER", this.vbo), "ELEMENT_ARRAY_BUFFER", this.ibo)
        g3 == FrameBuffer_drop(Texture_drop(g2, this.depth_map), this.depth_map_fbo)
    IN FrameBuffer_drop(Texture_drop(g3, this.hatch_map), this.hatch_map_fbo)

\* Model::get_attributes
get_attributes(this) == this.attributes

\* The value reset_all_attributes uploads for a field: what the typed setter
\* of the field is given.
AttributeUniformValue(att, f) ==
    CASE f \in {"projection_matrix", "camera_position", "color"} -> att[f]
      [] f = "replace_shadows_with_hatching" -> <<BoolAsU32(att[f])>>
      [] OTHER -> <<att[f]>>

\* Model::get_size
get_size(this) == this.size

----------------------------------------------------------------------------
(* src/model.rs: Model::set_attributes *)

\* A store that keeps only the fields a uniform is uploaded from.
StoredAttributes_UploadedOnly(old, new) ==
    [f \in AttributeFields |-> IF f \in HostOnlyFields THEN old[f] ELSE new[f]]

\* Line 327: the snapshot stored at the end of set_attributes.
StoredAttributes(old, new) == new

\* The projection matrix uploaded twice without the hatching program being
\* put in use.
set_projection_matrix_NoSwitch(g, program, hatching_program, m) ==
    set_used(set_uniform_matrix4(set_uniform_matrix4(g, program, "projection_matrix", m), hatching_program, "projection_matrix", m), program)

\* Lines 273-278: the projection matrix goes to the main program and to the
\* hatching program, and the main program is put in use again.
set_projection_matrix(g, program, hatching_program, m) ==
    set_used(set_uniform_matrix4(set_used(set_uniform_matrix4(g, program, "projection_matrix", m), hatching_program), hatching_program, "projection_matrix", m), program)

\* `if test { upload }` around one of the typed setters.
if_3f_na(test, g, p, name, v) == IF test THEN set_uniform_3f_na(g, p, name, v) ELSE g

\* set_attributes without the uploads of the f32 fields.
if_f_NoUpload(test, g, p, name, x) == g

if_f(test, g, p, name, x) == IF test THEN set_uniform_f(g, p, name, x) ELSE g

if_ui(test, g, p, name, n) == IF test THEN set_uniform_ui(g, p, name, n) ELSE g

\* Lines 272-324: the uploads set_attributes makes, with the main program in
\* use.  The f32 fields are uploaded when the difference is below EPSILON.
set_attributes_uploads(g, this, new) ==
    LET old == this.attributes
        program == this.program
        g1 == IF new.projection_matrix # old.projection_matrix
              THEN set_projection_matrix(g, program, this.hatching_program, new.projection_matrix)
              ELSE g
        g2 == if_3f_na(new.camera_position # old.camera_position, g1, program, "camera_position", new.camera_position)
        g3 == if_3f_na(new.color # old.color, g2, program, "color", new.color)
        g4 == if_f(F32Abs(F32Sub(new.model_size, old.model_size)) < F32_EPSILON, g3, program, "model_size", new.model_size)
        g5 == if_f(F32Abs(F32Sub(new.distance_shading_power, old.distance_shading_power)) < F32_EPSILON, g4, program, "distance_shading_power", new.distance_shading_power)
        g6 == if_f(F32Abs(F32Sub(new.toon_factor, old.toon_factor)) < F32_EPSILON, g5, program, "toon_factor", new.toon_factor)
        g7 == if_ui(new.distance_shading_channel # old.distance_shading_channel, g6, program, "distance_shading_channel", new.distance_shading_channel)
        g8 == if_f(F32Abs(F32Sub(new.shadow_intensity, old.shadow_intensity)) < F32_EPSILON, g7, program, "shadow_intensity", new.shadow_intensity)
        g9 == if_f(F32Abs(F32Sub(new.vertex_color_mix, old.vertex_color_mix)) < F32_EPSILON, g8, program, "vertex_color_mix", new.vertex_color_mix)
        g10 == if_f(F32Abs(F32Sub(new.hatching_intensity, old.hatching_intensity)) < F32_EPSILON, g9, program, "hatching_intensity", new.hatching_intensity)
        g11 == if_ui(new.hatching_frequency # old.hatching_frequency, g10, program, "hatching_frequency", new.hatching_frequency)
    IN if_ui(new.replace_shadows_with_hatching # old.replace_shadows_with_hatching, g11, program, "replace_shadows_with_hatching", BoolAsU32(new.replace_shadows_with_hatching))

\* set_attributes without the unset_used of line 326.
set_attributes_StaysUsed(g, this, new) ==
    [value |-> [this EXCEPT !.attributes = StoredAttributes(this.attributes, new)],
     g |-> set_attributes_uploads(set_used(g, this.program), this, new)]

\* Model::set_attributes(&mut self, new): the Model and the context it leaves.
set_attributes(g, this, new) ==
    [value |-> [this EXCEPT !.attributes = StoredAttributes(this.attributes, new)],
     g |-> unset_used(set_attributes_uploads(set_used(g, this.program), this, new), this.program)]

----------------------------------------------------------------------------
(* src/ui/ui_builder.rs: the settings panel *)

\* Lines 265-301: the snapshot of the Model with the fields of the preset
\* (enum Preset).  Every preset sets toon_factor to 0.0 and the same
\* hatching fields.
PresetAttributes(preset, att) ==
    LET hatching == [att EXCEPT !.toon_factor = 0,
                                !.replace_shadows_with_hatching = TRUE,
                                !.hatching_depth = 7,
                                !.hatching_steps = 150,
                                !.hatching_frequency = 4,
                                !.hatching_intensity = 7]
    IN CASE preset = "Plain" ->
                [hatching EXCEPT !.vertex_color_mix = 10, !.distance_shading_channel = 0]
         [] preset = "Aerial" ->
                [hatching EXCEPT !.vertex_color_mix = 10, !.distance_shading_channel = 2, !.distance_shading_power = 6]
         [] preset = "ChromaDepth" ->
                [hatching EXCEPT !.distance_shading_channel = 1, !.distance_shading_power = 6]

\* UiBuilder::apply_preset(&self, model): the preset is given to
\* set_attributes and returned.
apply_preset(g, this, preset) ==
    LET r == set_attributes(g, this, PresetAttributes(preset, get_attributes(this)))
    IN [value |-> r.value, g |-> r.g, ret |-> PresetAttributes(preset, get_attributes(this))]

\* What the widgets of one frame do to attr: nothing (edit is <<>>), or one
\* field set to a value.
Edited(attr, edit) == IF edit = <<>> THEN attr ELSE [attr EXCEPT ![edit[1]] = edit[2]]

\* Lines 84-259 of build_ui for a loaded Model: attr is the snapshot of the
\* Model, or what apply_preset returns when a preset button was clicked
\* (clicked is "none" when none was); attr, edited by the widgets, is given
\* to set_attributes at the end of the frame.
build_ui(g, this, clicked, edit) ==
    LET a == IF clicked = "none"
             THEN [value |-> this, g |-> g, ret |-> get_attributes(this)]
             ELSE apply_preset(g, this, clicked)
    IN set_attributes(a.g, a.value, Edited(a.ret, edit))

----------------------------------------------------------------------------
(* src/model.rs: Model::render *)

\* The sizes of the window the frame is drawn to.
Viewports == {<<800, 600>>, <<600, 600>>}

\* Lines 457-469: the position of the light, as the values it is computed
\* from: the direction, the squared distance of the camera from the origin,
\* the angle of the orbit and its radius.
LightOf(att) ==
    LET light_pos == IF att.shadows_follow THEN att.camera_position ELSE att.light_position
    IN <<light_pos[1], light_pos[2], light_pos[3], NormSquared(att.camera_position), att.elapsed % 2000, att.shadows_orbit_radius>>

\* Line 476: center - light.
LightVector(light) == <<0>> \o light

\* Lines 455, 471-477: light_projection * look_at(light, center, up).
LightSpaceMatrix(light) == <<1>> \o light

\* Lines 509-525: hatch_projection(aspect) * look_at(camera, center, up).
HatchSpaceMatrix(viewport, camera_position) == <<2, viewport[1], viewport[2]>> \o camera_position

\* render_shadowmap without the unbind of line 491.
render_shadowmap_StaysBound(g0, this) ==
    LET g1 == DepthFunc(Enable(Disable(Disable(g0, "CULL_FACE"), "BLEND"), "DEPTH_TEST"), "LESS")
        g2 == set_uniform_matrix4(set_used(g1, this.shadow_program), this.shadow_program, "lightSpaceMatrix", LightSpaceMatrix(LightOf(this.attributes)))
        g3 == Clear(FrameBuffer_bind(Viewport(g2, SHADOW_WIDTH, SHADOW_HEIGHT), this.depth_map_fbo))
        g4 == Buffer_bind(VertexArray_bind(g3, this.vao), "ELEMENT_ARRAY_BUFFER", this.ibo)
    IN [g |-> DrawElements(g4, this.indices), light_vector |-> LightVector(LightOf(this.attributes)),
        light_space_matrix |-> LightSpaceMatrix(LightOf(this.attributes))]

\* Model::render_shadowmap: the context it leaves, and what it returns.
render_shadowmap(g0, this) ==
    LET g1 == DepthFunc(Enable(Disable(Disable(g0, "CULL_FACE"), "BLEND"), "DEPTH_TEST"), "LESS")
        g2 == set_used(g1, this.shadow_program)
        light == LightOf(this.attributes)
        light_vector == LightVector(light)
        light_space_matrix == LightSpaceMatrix(light)
        g3 == set_uniform_matrix4(g2, this.shadow_program, "lightSpaceMatrix", light_space_matrix)
        g4 == Clear(FrameBuffer_bind(Viewport(g3, SHADOW_WIDTH, SHADOW_HEIGHT), this.depth_map_fbo))
        g5 == Buffer_bind(VertexArray_bind(g4, this.vao), "ELEMENT_ARRAY_BUFFER", this.ibo)
        g6 == FrameBuffer_unbind(DrawElements(g5, this.indices))
    IN [g |-> g6, light_vector |-> light_vector, light_space_matrix |-> light_space_matrix]

\* render_hatchmap without the upload of lines 526-527.
render_hatchmap_NoMatrix(g0, this, viewport) ==
    LET hatching_program == this.hatching_program
        g1 == set_used(g0, hatching_program)
        g2 == set_uniform_f(g1, hatching_program, "hatching_depth", this.attributes.hatching_depth)
        g3 == set_uniform_ui(g2, hatching_program, "steps", this.attributes.hatching_steps)
        g4 == FrameBuffer_bind(g3, this.hatch_map_fbo)
        g6 == set_uniform_f(g4, hatching_program, "far_plane", HATCHING_FAR_PLANE)
        g7 == DepthFunc(Enable(Disable(Disable(g6, "CULL_FACE"), "BLEND"), "DEPTH_TEST"), "LESS")
        g8 == Clear(Viewport(g7, SHADOW_WIDTH, SHADOW_HEIGHT))
        g9 == Buffer_bind(VertexArray_bind(g8, this.vao), "ELEMENT_ARRAY_BUFFER", this.ibo)
        g10 == FrameBuffer_unbind(DrawElements(g9, this.indices))
    IN [g |-> g10, hatch_space_matrix |-> HatchSpaceMatrix(viewport, this.attributes.camera_position)]

\* Model::render_hatchmap: the context it leaves, and what it returns.
render_hatchmap(g0, this, viewport) ==
    LET hatching_program == this.hatching_program
        g1 == set_used(g0, hatching_program)
        g2 == set_uniform_f(g1, hatching_program, "hatching_depth", this.attributes.hatching_depth)
        g3 == set_uniform_ui(g2, hatching_program, "steps", this.attributes.hatching_steps)
        g4 == FrameBuffer_bind(g3, this.hatch_map_fbo)
        hatch_space_matrix == HatchSpaceMatrix(viewport, this.attributes.camera_position)
        g5 == set_uniform_matrix4(g4, hatching_program, "projection_matrix", hatch_space_matrix)
        g6 == set_uniform_f(g5, hatching_program, "far_plane", HATCHING_FAR_PLANE)
        g7 == DepthFunc(Enable(Disable(Disable(g6, "CULL_FACE"), "BLEND"), "DEPTH_TEST"), "LESS")
        g8 == Clear(Viewport(g7, SHADOW_WIDTH, SHADOW_HEIGHT))
        g9 == Buffer_bind(VertexArray_bind(g8, this.vao), "ELEMENT_ARRAY_BUFFER", this.ibo)
        g10 == FrameBuffer_unbind(DrawElements(g9, this.indices))
    IN [g |-> g10, hatch_space_matrix |-> hatch_space_matrix]

\* geometry::intersect_box_and_line for a camera on the z axis: the points
\* where the line through the origin and the camera meets the box of full
\* extents size centred at the origin, the face of positive z first.
intersect_box_and_line(cam, size) ==
    IF cam[3] = 0 THEN <<<<0, 0, 0>>, <<0, 0, 0>>>>
    ELSE <<<<0, 0, size[3] \div 2>>, <<0, 0, 0 - (size[3] \div 2)>>>>

\* The two points taken in the order intersect_box_and_line gives them.
SortByDistance_AsGiven(cam, points) == points

\* f32::partial_cmp: None when either side is a NaN.
partial_cmp(a, b) ==
    IF a = F32_NAN \/ b = F32_NAN THEN "None"
    ELSE IF a < b THEN "Less"
    ELSE IF a = b THEN "Equal"
    ELSE "Greater"

\* Lines 383-388, the comparator: the distances of a and b to the camera
\* compared, and unwrap_or(Equal) for distances that cannot be ordered.
CompareByDistance(cam, a, b) ==
    IF partial_cmp(Magnitude(VSub(cam, a)), Magnitude(VSub(cam, b))) = "None"
    THEN "Equal"
    ELSE partial_cmp(Magnitude(VSub(cam, a)), Magnitude(VSub(cam, b)))

\* The sort with a swap of the two points unless the second is further away.
SortByDistance_SwapsTies(cam, points) ==
    IF CompareByDistance(cam, points[2], points[1]) # "Greater"
    THEN <<points[2], points[1]>>
    ELSE points

\* Lines 383-388: the two points sorted by their distance to the camera.
\* The sort of a slice of two moves the second element in front of the first
\* only when the comparator calls it Less.
SortByDistance(cam, points) ==
    IF CompareByDistance(cam, points[2], points[1]) = "Less"
    THEN <<points[2], points[1]>>
    ELSE points

\* Lines 380-438: the main pass, given what the two depth passes returned.
render_main(g0, this, viewport, light_vector, light_space_matrix, hatch_space_matrix) ==
    LET program == this.program
        cam == this.attributes.camera_position
        intersections == SortByDistance(cam, intersect_box_and_line(cam, this.size))
        closest == intersections[1]
        furthest == intersections[2]
        g1 == set_used(g0, program)
        g2 == set_uniform_3f(g1, program, "distance_shading_closest", closest)
        g3 == set_uniform_3f(g2, program, "distance_shading_furthest", furthest)
        g4 == set_uniform_matrix4(g3, program, "light_space_matrix", light_space_matrix)
        g5 == set_uniform_matrix4(g4, program, "light_space_matrix", light_space_matrix)
        g6 == set_uniform_matrix4(g5, program, "hatch_space_matrix", hatch_space_matrix)
        g7 == set_uniform_3f_na(g6, program, "light_vector", light_vector)
        g8 == set_uniform_f(g7, program, "hatching_far_plane", HATCHING_FAR_PLANE)
        g9 == Viewport(CullFace(Enable(g8, "CULL_FACE"), "BACK"), viewport[1], viewport[2])
        g10 == Buffer_bind(VertexArray_bind(g9, this.vao), "ELEMENT_ARRAY_BUFFER", this.ibo)
        g11 == Texture_bind_to(Texture_bind_to(g10, this.depth_map, 0), this.hatch_map, 0 + 1)
        g12 == IF this.attributes.replace_shadows_with_hatching
               THEN Texture_set_texture_compare_mode(g11, this.hatch_map, "COMPARE_REF_TO_TEXTURE")
               ELSE Texture_set_texture_compare_mode(g11, this.hatch_map, "NONE")
        g13 == DrawElements(g12, this.indices)
        g14 == Texture_unbind(Texture_unbind(g13, this.hatch_map), this.depth_map)
    IN VertexArray_unbind(Buffer_unbind(g14, "ELEMENT_ARRAY_BUFFER"))

\* render with the two depth passes in the other order.
render_HatchFirst(g, this, viewport) ==
    LET h == render_hatchmap(g, this, viewport)
        s == render_shadowmap(h.g, this)
    IN render_main(s.g, this, viewport, s.light_vector, s.light_space_matrix, h.hatch_space_matrix)

\* render with a main pass that takes the two matrices from the uniforms the
\* main program holds when the call begins.
render_StaleMatrices(g, this, viewport) ==
    LET s == render_shadowmap(g, this)
        h == render_hatchmap(s.g, this, viewport)
    IN render_main(h.g, this, viewport, s.light_vector, g.uniforms[this.program]["light_space_matrix"], g.uniforms[this.program]["hatch_space_matrix"])

\* Model::render(&self, viewport): the context it leaves.
render(g, this, viewport) ==
    LET s == render_shadowmap(g, this)
        h == render_hatchmap(s.g, this, viewport)
    IN render_main(h.g, this, viewport, s.light_vector, s.light_space_matrix, h.hatch_space_matrix)

----------------------------------------------------------------------------
(* src/model.rs: Model::check_shader_update *)

\* The paths the file watcher reports: a directory and a file name of a stem
\* and an extension, or no file name at all (a path that ends in "..").
Paths ==
    {[dir |-> "shaders", file_name |-> <<"model", "frag">>],
     [dir |-> "shaders", file_name |-> <<"shadow", "vert">>],
     [dir |-> "shaders", file_name |-> <<"hatching", "frag">>],
     [dir |-> "shaders", file_name |-> <<"triangle", "frag">>],
     [dir |-> "shaders", file_name |-> <<>>]}

\* Path::file_stem, an Option: a sequence of at most one stem.
file_stem(path) == IF path.file_name = <<>> THEN <<>> ELSE <<path.file_name[1]>>

\* The Ok branch without the reset_all_attributes of lines 557, 567, 577.
InstallProgram_NoReset(g, this, field, built) ==
    [value |-> [this EXCEPT ![field] = built], g |-> drop_program(unset_used(g, this[field]), this[field]), ret |-> TRUE]

\* An install that puts the snapshot back to the defaults before the
\* attributes are uploaded.
InstallProgram_DefaultAttributes(g, this, field, built) ==
    [value |-> [this EXCEPT ![field] = built, !.attributes = DefaultAttributes],
     g |-> reset_all_attributes(drop_program(unset_used(g, this[field]), this[field]), [this EXCEPT ![field] = built, !.attributes = DefaultAttributes]),
     ret |-> TRUE]

\* Lines 554-559 and their like: the rebuilt program replaces the one of the
\* field, which is dropped, and every attribute is uploaded again.
InstallProgram(g, this, field, built) ==
    LET g1 == unset_used(g, this[field])
        g2 == drop_program(g1, this[field])
        value == [this EXCEPT ![field] = built]
    IN [value |-> value, g |-> reset_all_attributes(g2, value), ret |-> TRUE]

\* A rebuild that releases the installed program before it knows the outcome.
Rebuild_DropsFirst(g, this, field, shader_path, ok) ==
    LET r == from_res(drop_program(g, this[field]), shader_path, ok)
    IN IF r.ok THEN [value |-> [this EXCEPT ![field] = r.program], g |-> reset_all_attributes(unset_used(r.g, this[field]), [this EXCEPT ![field] = r.program]), ret |-> TRUE]
       ELSE [value |-> this, g |-> r.g, ret |-> FALSE]

\* One branch of check_shader_update: the rebuild of the program of the
\* field from its path.
Rebuild(g, this, field, shader_path, ok) ==
    LET r == from_res(g, shader_path, ok)
    IN IF r.ok THEN InstallProgram(r.g, this, field, r.program)
       ELSE [value |-> this, g |-> r.g, ret |-> FALSE]

\* check_shader_update with a last branch that takes any other path for the
\* main shader.
check_shader_update_ElseMain(g, this, path, ok) ==
    LET stem == file_stem(path)
    IN IF stem = <<SHADOW_SHADER_NAME>> THEN Rebuild(g, this, "shadow_program", SHADOW_SHADER_PATH, ok)
       ELSE IF stem = <<HATCHING_SHADER_NAME>> THEN Rebuild(g, this, "hatching_program", HATCHING_SHADER_PATH, ok)
       ELSE Rebuild(g, this, "program", MAIN_SHADER_PATH, ok)

\* Model::check_shader_update(&mut self, path, res); ok is whether the
\* sources on disk compile and link.
check_shader_update(g, this, path, ok) ==
    LET stem == file_stem(path)
    IN IF stem = <<MAIN_SHADER_NAME>> THEN Rebuild(g, this, "program", MAIN_SHADER_PATH, ok)
       ELSE IF stem = <<SHADOW_SHADER_NAME>> THEN Rebuild(g, this, "shadow_program", SHADOW_SHADER_PATH, ok)
       ELSE IF stem = <<HATCHING_SHADER_NAME>> THEN Rebuild(g, this, "hatching_program", HATCHING_SHADER_PATH, ok)
       ELSE [value |-> this, g |-> g, ret |-> FALSE]

----------------------------------------------------------------------------
(* The state machine. *)

NoCall == [op |-> "new", arg |-> <<>>, ret |-> FALSE]

Init ==
    \E model \in Meshes :
        LET r == Model_new(FreshGL, model)
        IN /\ self = r.value
           /\ gl = ClearTrace(r.g)
           /\ call = NoCall

\* The snapshot a Model holds after construction.
ConstructedAttributes(this) == [DefaultAttributes EXCEPT !.model_size = Magnitude(this.size)]

\* The fields Model::render reads, and the one set_attributes uploads to the
\* hatching program as well.
RenderFields == HostOnlyFields \cup {"camera_position", "replace_shadows_with_hatching", "projection_matrix"}

\* The snapshots callers pass to set_attributes: the snapshot of
\* construction with at most one of the fields edited.
AttributeInputs(this, fields) == SingleEdits(ConstructedAttributes(this), fields)

SetAttributes(new) ==
    LET r == set_attributes(ClearTrace(gl), self, new)
    IN /\ self' = r.value
       /\ gl' = r.g
       /\ call' = [op |-> "set_attributes", arg |-> new, ret |-> FALSE]

ResetAllAttributes ==
    /\ gl' = reset_all_attributes(ClearTrace(gl), self)
    /\ call' = [op |-> "reset_all_attributes", arg |-> <<>>, ret |-> FALSE]
    /\ UNCHANGED self

Render(viewport) ==
    /\ gl' = render(ClearTrace(gl), self, viewport)
    /\ call' = [op |-> "render", arg |-> viewport, ret |-> FALSE]
    /\ UNCHANGED self

\* A rebuild succeeds at most MaxReloads times.
CheckShaderUpdate(path, ok) ==
    /\ ok => gl.program_names < NumInitialPrograms + MaxReloads
    /\ LET r == check_shader_update(ClearTrace(gl), self, path, ok)
       IN /\ self' = r.value
          /\ gl' = r.g
          /\ call' = [op |-> "check_shader_update", arg |-> [path |-> path, ok |-> ok], ret |-> r.ret]

\* The fields edited between hot reloads: one uploaded to two programs, one
\* read by every pass of render, one f32.
ReloadFields == {"projection_matrix", "camera_position", "toon_factor"}

Next ==
    \/ \E new \in AttributeInputs(self, ReloadFields) : SetAttributes(new)
    \/ ResetAllAttributes
    \/ \E viewport \in Viewports : Render(viewport)
    \/ \E path \in Paths, ok \in BOOLEAN : CheckShaderUpdate(path, ok)

Spec == Init /\ [][Next]_vars

\* The life of a Model, from before Model::new to after its drop.
Start == [op |-> "start", arg |-> <<>>, ret |-> FALSE]

InitLifetime ==
    /\ self = NoModel
    /\ gl = FreshGL
    /\ call = Start

\* A Model exists: Model::new has returned Ok and the Model was not dropped.
Alive == call.op \notin {"start", "drop"} /\ (call.op = "new" => call.ret)

New(model, ok) ==
    /\ call.op = "start"
    /\ LET r == Model_new_Result(gl, model, ok)
       IN /\ self' = r.value
          /\ gl' = r.g
          /\ call' = [op |-> "new", arg |-> [model |-> model, ok |-> ok], ret |-> r.ok]

Drop ==
    /\ Alive
    /\ self' = NoModel
    /\ gl' = Model_drop(ClearTrace(gl), self)
    /\ call' = [op |-> "drop", arg |-> <<>>, ret |-> FALSE]

\* The field edited between construction and drop.
LifetimeFields == {"camera_position"}

NextLifetime ==
    \/ \E model \in Meshes, ok \in Outcomes : New(model, ok)
    \/ Alive /\ \E new \in AttributeInputs(self, LifetimeFields) : SetAttributes(new)
    \/ Alive /\ \E viewport \in Viewports : Render(viewport)
    \/ Alive /\ \E path \in Paths, ok \in BOOLEAN : CheckShaderUpdate(path, ok)
    \/ Drop

SpecLifetime == InitLifetime /\ [][NextLifetime]_vars

\* Model::new on every mesh file, and the drop of the Model it gives.
NextMeshes ==
    \/ \E model \in LoadableMeshes, ok \in Outcomes : New(model, ok)
    \/ Drop

SpecMeshes == InitLifetime /\ [][NextMeshes]_vars

\* The sort of render alone, applied to any camera and any two points.
InitSort ==
    /\ self = NoModel
    /\ gl = FreshGL
    /\ \E cam \in {<<0, 0, 0>>, <<0, 0, 10>>, <<0, 0, -10>>} :
        \E a, b \in {<<0, 0, 6>>, <<0, 0, -6>>, <<6, 0, 0>>, <<0, 0, 0>>, <<0, 0, F32_NAN>>, <<0, 0, F32_INFINITY>>} :
            call = [op |-> "intersect_box_and_line", arg |-> [cam |-> cam, points |-> <<a, b>>], ret |-> <<a, b>>]

Sort ==
    /\ call.op = "intersect_box_and_line"
    /\ call' = [op |-> "sort_unstable_by", arg |-> call.arg, ret |-> SortByDistance(call.arg.cam, call.ret)]
    /\ UNCHANGED <<self, gl>>

SpecSort == InitSort /\ [][Sort]_vars

\* The settings panel, frame after frame.  The Model is one of Meshes or the
\* Model of a mesh without vertices, whose model_size is infinite.
InitPanel ==
    \E model \in Meshes \cup {MeshOf(<<>>)} :
        LET r == Model_new(FreshGL, model)
        IN /\ self = r.value
           /\ gl = ClearTrace(r.g)
           /\ call = NoCall

\* One frame of the panel.  The result records the snapshots given to
\* set_attributes, in order: the one given last in the frame before, the
\* preset when a button was clicked, and attr at the end of the frame.
BuildUi(clicked, edit) ==
    LET r == build_ui(ClearTrace(gl), self, clicked, edit)
    IN /\ self' = r.value
       /\ gl' = r.g
       /\ call' = [op |-> "build_ui",
                   arg |-> [clicked |-> clicked, edit |-> edit],
                   ret |-> (IF call.op = "build_ui" THEN <<get_attributes(self)>> ELSE <<>>)
                           \o (IF clicked = "none" THEN <<>> ELSE <<PresetAttributes(clicked, get_attributes(self))>>)
                           \o <<Edited(IF clicked = "none" THEN get_attributes(self) ELSE PresetAttributes(clicked, get_attributes(self)), edit)>>]

SpecPanel ==
    InitPanel /\ [][\E clicked \in {"none", "Plain", "Aerial", "ChromaDepth"} :
                      \E edit \in {<<>>, <<"toon_factor", 7>>, <<"toon_factor", 8>>, <<"vertex_color_mix", 5>>,
                                    <<"shadow_intensity", 8>>, <<"distance_shading_channel", 3>>} :
                          BuildUi(clicked, edit)]_vars

\* The Texture wrapper alone: two textures, each with a home unit, and the
\* calls of load_texture, bind, bind_to and unbind on either.
InitTextures ==
    \E home1, home2 \in DOMAIN FreshGL.texture_2d :
        /\ self = [NoModel EXCEPT !.depth_map = Texture(1, home1), !.hatch_map = Texture(2, home2)]
        /\ gl = Texture_new(Texture_new(FreshGL))
        /\ call = [op |-> "Texture::new", arg |-> <<home1, home2>>, ret |-> FALSE]

TextureBind(field) ==
    /\ gl' = Texture_bind(gl, self[field])
    /\ call' = [op |-> "Texture::bind", arg |-> [texture |-> self[field]], ret |-> FALSE]
    /\ UNCHANGED self

TextureBindTo(field, texture_unit) ==
    /\ gl' = Texture_bind_to(gl, self[field], texture_unit)
    /\ call' = [op |-> "Texture::bind_to", arg |-> [texture |-> self[field], texture_unit |-> texture_unit], ret |-> FALSE]
    /\ UNCHANGED self

TextureUnbind(field) ==
    /\ gl' = Texture_unbind(gl, self[field])
    /\ call' = [op |-> "Texture::unbind", arg |-> [texture |-> self[field]], ret |-> FALSE]
    /\ UNCHANGED self

TextureLoadTexture(field) ==
    /\ gl' = Texture_load_texture(gl, self[field])
    /\ call' = [op |-> "Texture::load_texture", arg |-> [texture |-> self[field]], ret |-> FALSE]
    /\ UNCHANGED self

SpecTextures ==
    InitTextures /\ [][\E field \in {"depth_map", "hatch_map"} :
                         \/ TextureLoadTexture(field)
                         \/ TextureBind(field)
                         \/ \E texture_unit \in DOMAIN gl.texture_2d : TextureBindTo(field, texture_unit)
                         \/ TextureUnbind(field)]_vars

\* The wrappers that unbind when dropped: two array buffers, two vertex
\* arrays and two framebuffers were made, and each is bound or dropped.
\* The live objects of a kind, by name, and the name bound to its target.
LiveObjects(g, kind) ==
    CASE kind = "Buffer" -> g.buffers
      [] kind = "VertexArray" -> g.vertex_arrays
      [] kind = "FrameBuffer" -> g.framebuffers

BoundObject(g, kind) ==
    CASE kind = "Buffer" -> BoundBuffer(g, "ARRAY_BUFFER")
      [] kind = "VertexArray" -> g.vertex_array
      [] kind = "FrameBuffer" -> g.framebuffer

InitDrops ==
    /\ self = NoModel
    /\ gl = FrameBuffer_new(FrameBuffer_new(VertexArray_new(VertexArray_new(Buffer_new(Buffer_new(FreshGL))))))
    /\ call = Start

BindObject(kind, id) ==
    /\ id \in LiveObjects(gl, kind)
    /\ gl' = CASE kind = "Buffer" -> Buffer_bind(gl, "ARRAY_BUFFER", id)
                [] kind = "VertexArray" -> VertexArray_bind(gl, id)
                [] kind = "FrameBuffer" -> FrameBuffer_bind(gl, id)
    /\ call' = [op |-> "bind", arg |-> [kind |-> kind, id |-> id], ret |-> FALSE]
    /\ UNCHANGED self

DropObject(kind, id) ==
    /\ id \in LiveObjects(gl, kind)
    /\ gl' = CASE kind = "Buffer" -> Buffer_drop(gl, "ARRAY_BUFFER", id)
                [] kind = "VertexArray" -> VertexArray_drop(gl, id)
                [] kind = "FrameBuffer" -> FrameBuffer_drop(gl, id)
    /\ call' = [op |-> "drop", arg |-> [kind |-> kind, id |-> id], ret |-> FALSE]
    /\ UNCHANGED self

SpecDrops ==
    InitDrops /\ [][\E kind \in {"Buffer", "VertexArray", "FrameBuffer"}, id \in 1 .. 2 :
                      BindObject(kind, id) \/ DropObject(kind, id)]_vars

\* The attribute store alone, with every field edited.
NextAttributes ==
    \/ \E new \in AttributeInputs(self, AttributeFields) : SetAttributes(new)
    \/ ResetAllAttributes

SpecAttributes == Init /\ [][NextAttributes]_vars

NextFrames ==
    \/ \E new \in AttributeInputs(self, RenderFields) : SetAttributes(new)
    \/ \E viewport \in Viewports : Render(viewport)

SpecFrames == Init /\ [][NextFrames]_vars

----------------------------------------------------------------------------
(* The claims. *)

\* The places in the trace of the uploads of a uniform to a program.
UploadIndices(g, p, name) ==
    {i \in DOMAIN g.trace : g.trace[i].kind = "uniform" /\ g.trace[i].program = p /\ g.trace[i].name = name}

\* The places in the trace of all uploads.
AllUploadIndices(g) == {i \in DOMAIN g.trace : g.trace[i].kind = "uniform"}

\* The fields in which two snapshots differ.
ChangedFields(old, new) == {f \in AttributeFields : old[f] # new[f]}

\* The field of Model that holds the program of a shader name.
ShaderField(stem) ==
    CASE stem = <<MAIN_SHADER_NAME>> -> "program"
      [] stem = <<SHADOW_SHADER_NAME>> -> "shadow_program"
      [] stem = <<HATCHING_SHADER_NAME>> -> "hatching_program"

KnownStems == {<<MAIN_SHADER_NAME>>, <<SHADOW_SHADER_NAME>>, <<HATCHING_SHADER_NAME>>}

\* The names of a kind that were released.
Released(g, kind) == {g.releases[i][2] : i \in {j \in DOMAIN g.releases : g.releases[j][1] = kind}}

\* The k-th coordinates of the vertices of a model, and the least and the
\* greatest number of a set.
Coordinates(model, k) == {Chunk(model.positions, i)[k] : i \in 1 .. NumChunks(model.positions)}

Least(S) == CHOOSE m \in S : \A x \in S : m <= x

Greatest(S) == CHOOSE m \in S : \A x \in S : m >= x

\* The places in the trace of the draws.
DrawIndices(g) == {i \in DOMAIN g.trace : g.trace[i].kind = "draw"}

\* The places in the trace of the depth clears.
ClearIndices(g) == {i \in DOMAIN g.trace : g.trace[i].kind = "clear"}

\* C1: every call of set_attributes uploads, to the uniform of the same name
\* of the main program, the new value of every uniform-backed field whose
\* value differs from the stored snapshot.
C1_ChangedFieldsAreUploaded ==
    [][call'.op = "set_attributes" =>
        \A f \in AttributeUniforms :
            call'.arg[f] # self.attributes[f] =>
                \E i \in UploadIndices(gl', self.program, f) :
                    gl'.trace[i].value = AttributeUniformValue(call'.arg, f)]_vars

\* C2: set_attributes uploads nothing for a field whose new value equals the
\* stored snapshot; with a snapshot identical to the stored one it uploads
\* nothing at all.
C2_UnchangedFieldsAreNotUploaded ==
    [][call'.op = "set_attributes" =>
        /\ \A f \in AttributeUniforms :
            call'.arg[f] = self.attributes[f] => \A i \in AllUploadIndices(gl') : gl'.trace[i].name # f
        /\ call'.arg = self.attributes => AllUploadIndices(gl') = {}]_vars

\* C3: set_attributes with a snapshot that differs from the stored one in
\* exactly one field makes exactly one upload, the one of that field.
C3_OneChangeOneUpload ==
    [][(call'.op = "set_attributes" /\ Cardinality(ChangedFields(self.attributes, call'.arg)) = 1) =>
        /\ Cardinality(AllUploadIndices(gl')) = 1
        /\ \A i \in AllUploadIndices(gl') : gl'.trace[i].name \in ChangedFields(self.attributes, call'.arg)]_vars

\* C4: between calls, every attribute uniform of the main program holds the
\* value of its field in the stored snapshot.
C4_UniformsEqualSnapshot ==
    \A f \in AttributeUniforms :
        gl.uniforms[self.program][f] = AttributeUniformValue(self.attributes, f)

\* C5: after set_attributes(new), get_attributes() is new in every field,
\* host-only fields included.
C5_SnapshotIsNew ==
    call.op = "set_attributes" => get_attributes(self) = call.arg

\* C5 witness: set_attributes has stored a snapshot whose host-only field
\* elapsed was edited, a field it uploads nothing for.
C5_Witness ==
    /\ call.op = "set_attributes"
    /\ call.arg.elapsed # DefaultAttributes.elapsed
    /\ get_attributes(self).elapsed = call.arg.elapsed

C7_NoProgramInUse ==
    call.op \in {"set_attributes", "reset_all_attributes"} => gl.used = 0

\* C7 witness: set_attributes has returned from a call in which the
\* projection matrix changed and the hatching program was put in use.
C7_Witness ==
    /\ call.op = "set_attributes"
    /\ UploadIndices(gl, self.hatching_program, "projection_matrix") # {}
    /\ \E i \in DOMAIN gl.trace : gl.trace[i].at.used = self.hatching_program

\* C8: every render call issues exactly three draws: the first in the shadow
\* pass (shadow program, shadow framebuffer), the second in the hatch pass
\* (hatching program, hatch framebuffer), the third in the main pass (main
\* program, default framebuffer).
C8_PassOrder ==
    call.op = "render" =>
        LET d == Draws(gl)
        IN /\ Len(d) = 3
           /\ d[1].at.used = self.shadow_program /\ d[1].at.framebuffer = self.depth_map_fbo
           /\ d[2].at.used = self.hatching_program /\ d[2].at.framebuffer = self.hatch_map_fbo
           /\ d[3].at.used = self.program /\ d[3].at.framebuffer = 0

\* C8 witness: a frame was rendered from a snapshot edited after
\* construction, with hatching not replacing shadows.
C8_Witness ==
    /\ call.op = "render"
    /\ ~self.attributes.replace_shadows_with_hatching
    /\ Len(Draws(gl)) = 3

\* C9: check_shader_update with a path whose stem is none of the three
\* shader names, or that has no stem, returns false, attempts no rebuild and
\* leaves the Model (programs and snapshot) and the context (programs,
\* uniforms, program in use) as they were.
C9_NoMatchNoChange ==
    [][(call'.op = "check_shader_update" /\ file_stem(call'.arg.path) \notin KnownStems) =>
        /\ call'.ret = FALSE
        /\ Rebuilds(gl') = <<>>
        /\ self' = self
        /\ gl' = ClearTrace(gl)]_vars

\* C9 witness: check_shader_update has returned from a call with a path of
\* no stem, sources that would build, and uniforms uploaded by an earlier
\* frame.
C9_Witness ==
    /\ call.op = "check_shader_update"
    /\ file_stem(call.arg.path) = <<>>
    /\ call.arg.ok
    /\ gl.uniforms[self.program]["light_vector"] # Unset

\* C10: check_shader_update with a matching stem and a rebuild that fails
\* returns false, makes the one attempt, releases and replaces no program,
\* leaves the Model, the uniforms and the live programs as they were; and a
\* render call that follows draws with the three programs of before.
C10_FailedRebuildKeepsProgram ==
    [][/\ (call'.op = "check_shader_update" /\ file_stem(call'.arg.path) \in KnownStems /\ ~call'.arg.ok) =>
            /\ call'.ret = FALSE
            /\ Len(Rebuilds(gl')) = 1
            /\ self' = self
            /\ gl'.uniforms = gl.uniforms
            /\ gl'.programs = gl.programs
            /\ gl'.deleted_programs = gl.deleted_programs
            /\ {self.program, self.shadow_program, self.hatching_program} \subseteq gl'.programs
       /\ (call.op = "check_shader_update" /\ file_stem(call.arg.path) \in KnownStems /\ ~call.arg.ok /\ call'.op = "render") =>
            /\ Len(Draws(gl')) = 3
            /\ Draws(gl')[1].program = self.shadow_program
            /\ Draws(gl')[2].program = self.hatching_program
            /\ Draws(gl')[3].program = self.program
            /\ \A i \in 1 .. 3 : Draws(gl')[i].program \in gl'.programs]_vars

\* C10 witness: check_shader_update has returned false from a failed rebuild
\* of the main program, after a frame was rendered with it.
C10_Witness ==
    /\ call.op = "check_shader_update"
    /\ file_stem(call.arg.path) = <<MAIN_SHADER_NAME>>
    /\ ~call.arg.ok
    /\ ~call.ret
    /\ gl.uniforms[self.program]["light_vector"] # Unset

\* C11: check_shader_update with a matching stem and a rebuild that succeeds
\* returns true, puts the freshly built program in the field of that shader
\* and in no other, releases the program it replaces, and then uploads every
\* attribute uniform once to the main program while it is in use; when the
\* main program is the one replaced, every attribute uniform of the new main
\* program holds the value of the stored snapshot when the call returns.
C11_SuccessfulRebuildReplaces ==
    [][(call'.op = "check_shader_update" /\ file_stem(call'.arg.path) \in KnownStems /\ call'.arg.ok) =>
        LET field == ShaderField(file_stem(call'.arg.path))
        IN /\ call'.ret = TRUE
           /\ Len(Rebuilds(gl')) = 1
           /\ self'[field] \notin gl.programs
           /\ self' = [self EXCEPT ![field] = self'[field]]
           /\ gl'.programs = (gl.programs \ {self[field]}) \cup {self'[field]}
           /\ gl'.trace[1].kind = "from_res"
           /\ Cardinality(AllUploadIndices(gl')) = Cardinality(AttributeUniforms)
           /\ \A f \in AttributeUniforms :
                /\ Cardinality(UploadIndices(gl', self'.program, f)) = 1
                /\ \A i \in UploadIndices(gl', self'.program, f) :
                     /\ gl'.trace[i].value = AttributeUniformValue(self.attributes, f)
                     /\ gl'.trace[i].at.used = self'.program
           /\ field = "program" =>
                \A f \in AttributeUniforms :
                    gl'.uniforms[self'.program][f] = AttributeUniformValue(self.attributes, f)]_vars

\* C11 witness: check_shader_update has returned true from a rebuild of the
\* main program, on a snapshot whose toon_factor was edited after
\* construction, and the new program holds the edited value.
C11_Witness ==
    /\ call.op = "check_shader_update"
    /\ call.ret
    /\ file_stem(call.arg.path) = <<MAIN_SHADER_NAME>>
    /\ self.program \notin 1 .. NumInitialPrograms
    /\ self.attributes.toon_factor # ConstructedAttributes(self).toon_factor
    /\ gl.uniforms[self.program]["toon_factor"] = <<self.attributes.toon_factor>>

\* C12: Model::new returns Ok exactly when the main program builds, the model
\* loads, the shadow program builds and the hatching program builds; with an
\* Err the caller holds no Model, with Ok a Model whose three programs and
\* seven wrapper handles are live.
C12_NewIsAllOrNothing ==
    call.op = "new" =>
        /\ call.ret = (call.arg.ok.main /\ call.arg.ok.model /\ call.arg.ok.shadow /\ call.arg.ok.hatching)
        /\ ~call.ret => self = NoModel
        /\ call.ret =>
            /\ Cardinality({self.program, self.shadow_program, self.hatching_program}) = 3
            /\ {self.program, self.shadow_program, self.hatching_program} = gl.programs
            /\ {self.vbo, self.ibo} = gl.buffers /\ self.vbo # self.ibo
            /\ {self.vao} = gl.vertex_arrays
            /\ {self.depth_map.texture_id, self.hatch_map.texture_id} = gl.textures
            /\ {self.depth_map_fbo, self.hatch_map_fbo} = gl.framebuffers

\* C12 witness: Model::new has returned Err because the model did not load,
\* after the main program was built.
C12_Witness ==
    /\ call.op = "new"
    /\ ~call.ret
    /\ call.arg.ok.main /\ ~call.arg.ok.model /\ call.arg.ok.shadow /\ call.arg.ok.hatching
    /\ self = NoModel
    /\ gl.program_names = 1

\* C13: no handle of a Buffer, VertexArray, Texture or FrameBuffer is bound
\* or attached after its release, none is released twice, only handles that
\* were allocated are released; while a Model exists none of its handles is
\* released; and once the Model is dropped, or Model::new has returned Err,
\* every handle that was allocated has been released.
C13_HandlesReleasedOnce ==
    /\ gl.stale = {}
    /\ \A i, j \in DOMAIN gl.releases : gl.releases[i] = gl.releases[j] => i = j
    /\ gl.buffers = (1 .. gl.buffer_names) \ Released(gl, "buffer")
    /\ gl.vertex_arrays = (1 .. gl.vertex_array_names) \ Released(gl, "vertex_array")
    /\ gl.textures = (1 .. gl.texture_names) \ Released(gl, "texture")
    /\ gl.framebuffers = (1 .. gl.framebuffer_names) \ Released(gl, "framebuffer")
    /\ Released(gl, "buffer") \subseteq 1 .. gl.buffer_names
    /\ Released(gl, "vertex_array") \subseteq 1 .. gl.vertex_array_names
    /\ Released(gl, "texture") \subseteq 1 .. gl.texture_names
    /\ Released(gl, "framebuffer") \subseteq 1 .. gl.framebuffer_names
    /\ Alive => gl.releases = <<>>
    /\ (call.op = "drop" \/ (call.op = "new" /\ ~call.ret)) =>
        /\ gl.buffers = {} /\ gl.vertex_arrays = {} /\ gl.textures = {} /\ gl.framebuffers = {}
        /\ Len(gl.releases) = gl.buffer_names + gl.vertex_array_names + gl.texture_names + gl.framebuffer_names

\* C13 witness: Model::new has returned Err because the hatching program did
\* not build, after two buffers, a vertex array, the shadow texture and its
\* framebuffer were allocated, and has released the five of them.
C13_Witness ==
    /\ call.op = "new"
    /\ ~call.ret
    /\ call.arg.ok.main /\ call.arg.ok.model /\ call.arg.ok.shadow /\ ~call.arg.ok.hatching
    /\ gl.buffer_names = 2 /\ gl.texture_names = 1 /\ gl.framebuffer_names = 1
    /\ Len(gl.releases) = 5

\* C14: for every mesh Model::new has loaded, get_size is non-negative on
\* every axis and is, per axis, the greatest coordinate of the vertices minus
\* the least, and the position uploaded for each vertex is its position in
\* the mesh minus (min + (max - min) / 2).
C14_BoundingBox ==
    (call.op = "new" /\ call.ret) =>
        LET model == call.arg.model
        IN /\ \A k \in 1 .. 3 : get_size(self)[k] >= 0
           /\ \A k \in 1 .. 3 : Coordinates(model, k) # {} =>
                get_size(self)[k] = Greatest(Coordinates(model, k)) - Least(Coordinates(model, k))
           /\ Len(gl.buffer_data[self.vbo]) = NumChunks(model.positions)
           /\ \A i \in 1 .. NumChunks(model.positions), k \in 1 .. 3 :
                gl.buffer_data[self.vbo][i].pos[k] =
                    Chunk(model.positions, i)[k]
                    - (Least(Coordinates(model, k)) + ((Greatest(Coordinates(model, k)) - Least(Coordinates(model, k))) \div 2))

\* C15: the index count of the Model is the length of the index array held
\* by the index buffer, it is the count of every draw call, and no operation
\* changes it.
C15_IndexCount ==
    [][/\ self.indices = Len(gl.buffer_data[self.ibo])
       /\ self'.indices = self.indices
       /\ self'.ibo = self.ibo
       /\ gl'.buffer_data[self'.ibo] = gl.buffer_data[self.ibo]
       /\ \A i \in DOMAIN gl'.trace :
            gl'.trace[i].kind = "draw" => gl'.trace[i].value = <<Len(gl'.buffer_data[self'.ibo])>>]_vars

\* C15 witness: a frame of the mesh of two triangles was drawn, after a
\* shader was rebuilt, with three draws of six indices.
C15_Witness ==
    /\ call.op = "render"
    /\ gl.program_names > NumInitialPrograms
    /\ self.indices = 6
    /\ Len(gl.buffer_data[self.ibo]) = 6
    /\ Len(Draws(gl)) = 3
    /\ \A i \in 1 .. 3 : Draws(gl)[i].value = <<6>>

\* C16: every render call uploads distance_shading_closest and
\* distance_shading_furthest once each to the main program, before the draw
\* of the main pass; the two values are the two points where the line
\* through the camera position of the stored snapshot meets the box, and
\* the one uploaded as closest is not farther from that camera position than
\* the one uploaded as furthest.
C16_ClosestBeforeFurthest ==
    call.op = "render" =>
        LET cam == self.attributes.camera_position
            points == intersect_box_and_line(cam, self.size)
            closest == UploadIndices(gl, self.program, "distance_shading_closest")
            furthest == UploadIndices(gl, self.program, "distance_shading_furthest")
        IN /\ Cardinality(closest) = 1 /\ Cardinality(furthest) = 1
           /\ \A i \in closest, j \in furthest :
                /\ i < Greatest(DrawIndices(gl)) /\ j < Greatest(DrawIndices(gl))
                /\ gl.trace[i].at.used = self.program /\ gl.trace[j].at.used = self.program
                /\ NormSquared(VSub(cam, gl.trace[i].value)) <= NormSquared(VSub(cam, gl.trace[j].value))
                /\ {gl.trace[i].value, gl.trace[j].value} = {points[1], points[2]}
                /\ gl.uniforms[self.program]["distance_shading_closest"] = gl.trace[i].value
                /\ gl.uniforms[self.program]["distance_shading_furthest"] = gl.trace[j].value

\* C16 witness: a frame was rendered with the camera on the negative z axis,
\* where the point intersect_box_and_line gives second is the closest.
C16_Witness ==
    /\ call.op = "render"
    /\ self.attributes.camera_position = <<0, 0, -10>>
    /\ gl.uniforms[self.program]["distance_shading_closest"] = intersect_box_and_line(<<0, 0, -10>>, self.size)[2]
    /\ gl.uniforms[self.program]["distance_shading_closest"] # gl.uniforms[self.program]["distance_shading_furthest"]

\* C17: every uniform upload that set_attributes, reset_all_attributes and
\* render issue is issued while the program it is addressed to is the one in
\* use; a set_attributes call that uploads the projection matrix to the
\* hatching program has uploaded it to the main program before, the same
\* value, and issues every later upload with the main program in use.
C17_UploadsToTheProgramInUse ==
    call.op \in {"set_attributes", "reset_all_attributes", "render"} =>
        /\ \A i \in AllUploadIndices(gl) :
            /\ gl.trace[i].at.used = gl.trace[i].program
            /\ gl.trace[i].program \in gl.programs
        /\ call.op = "set_attributes" =>
            \A h \in UploadIndices(gl, self.hatching_program, "projection_matrix") :
                /\ gl.trace[h].value = call.arg.projection_matrix
                /\ \E m \in UploadIndices(gl, self.program, "projection_matrix") :
                    m < h /\ gl.trace[m].value = gl.trace[h].value
                /\ \A i \in AllUploadIndices(gl) :
                    i > h => (gl.trace[i].program = self.program /\ gl.trace[i].at.used = self.program)
        /\ call.op = "render" =>
            /\ UploadIndices(gl, self.shadow_program, "lightSpaceMatrix") # {}
            /\ UploadIndices(gl, self.hatching_program, "projection_matrix") # {}
            /\ UploadIndices(gl, self.program, "hatch_space_matrix") # {}

\* C17 witness: set_attributes has uploaded a changed projection matrix to
\* the hatching program while it was in use, and another uniform after it
\* to the main program while that was in use again.
C17_Witness ==
    /\ call.op = "set_attributes"
    /\ \E h \in UploadIndices(gl, self.hatching_program, "projection_matrix") :
        /\ gl.trace[h].at.used = self.hatching_program
        /\ \E i \in AllUploadIndices(gl) : i > h /\ gl.trace[i].at.used = self.program

\* C18: every render call clears the depth buffer twice and draws three
\* times, in the order clear, draw, clear, draw, draw; the first clear and
\* draw happen with the shadow framebuffer bound, the second clear and draw
\* with the hatch framebuffer bound, the call that follows each of the first
\* two draws is issued with the default framebuffer bound, and so is the
\* third draw; the default framebuffer is bound when render returns.
C18_FramebufferOfEachPass ==
    call.op = "render" =>
        /\ Cardinality(ClearIndices(gl)) = 2 /\ Cardinality(DrawIndices(gl)) = 3
        /\ self.depth_map_fbo # 0 /\ self.hatch_map_fbo # 0 /\ self.depth_map_fbo # self.hatch_map_fbo
        /\ \E c1, c2 \in ClearIndices(gl), d1, d2, d3 \in DrawIndices(gl) :
            /\ c1 < d1 /\ d1 < c2 /\ c2 < d2 /\ d2 < d3
            /\ gl.trace[c1].at.framebuffer = self.depth_map_fbo
            /\ gl.trace[d1].at.framebuffer = self.depth_map_fbo
            /\ gl.trace[d1 + 1].at.framebuffer = 0
            /\ gl.trace[c2].at.framebuffer = self.hatch_map_fbo
            /\ gl.trace[d2].at.framebuffer = self.hatch_map_fbo
            /\ gl.trace[d2 + 1].at.framebuffer = 0
            /\ gl.trace[d3].at.framebuffer = 0
        /\ gl.framebuffer = 0

\* C18 witness: a frame was rendered in a window that is not square, with
\* the shadows following the camera: two clears and three draws, the last
\* one to the default framebuffer.
C18_Witness ==
    /\ call.op = "render"
    /\ call.arg = <<800, 600>>
    /\ self.attributes.shadows_follow
    /\ Cardinality(ClearIndices(gl)) = 2
    /\ gl.trace[Greatest(DrawIndices(gl))].at.framebuffer = 0
    /\ gl.trace[Least(DrawIndices(gl))].at.framebuffer = self.depth_map_fbo

\* C19: at the draw of the main pass of every render call, the shadow depth
\* texture is the texture bound at unit 0 and the hatch depth texture is the
\* texture bound at unit 1.
C19_TextureUnitsAtMainDraw ==
    call.op = "render" =>
        LET d == gl.trace[Greatest(DrawIndices(gl))]
        IN /\ d.at.used = self.program
           /\ d.at.texture_2d[0] = self.depth_map.texture_id
           /\ d.at.texture_2d[1] = self.hatch_map.texture_id
           /\ self.depth_map.texture_id # self.hatch_map.texture_id
           /\ {self.depth_map.texture_id, self.hatch_map.texture_id} \subseteq gl.textures

\* C19 witness: a frame was rendered after an earlier frame had unbound both
\* textures, and drew its main pass with the two textures at units 0 and 1.
C19_Witness ==
    /\ call.op = "render"
    /\ gl.trace[1].at.texture_2d = [u \in 0 .. 1 |-> 0]
    /\ gl.trace[Greatest(DrawIndices(gl))].at.texture_2d[0] = self.depth_map.texture_id
    /\ gl.trace[Greatest(DrawIndices(gl))].at.texture_2d[1] = self.hatch_map.texture_id

\* C20: at the draw of the main pass of every render call the comparison
\* mode of the hatch depth texture is enabled exactly when
\* replace_shadows_with_hatching is true in the stored snapshot, and render
\* leaves the comparison mode of the shadow depth texture as it was.
C20_HatchCompareMode ==
    [][call'.op = "render" =>
        LET d == gl'.trace[Greatest(DrawIndices(gl'))]
        IN /\ d.at.compare_mode[self.hatch_map.texture_id] =
                (IF self.attributes.replace_shadows_with_hatching THEN "COMPARE_REF_TO_TEXTURE" ELSE "NONE")
           /\ d.at.compare_mode[self.depth_map.texture_id] = gl.compare_mode[self.depth_map.texture_id]
           /\ gl'.compare_mode[self.depth_map.texture_id] = gl.compare_mode[self.depth_map.texture_id]
           /\ \A i \in DOMAIN gl'.trace :
                gl'.trace[i].at.compare_mode[self.depth_map.texture_id] = gl.compare_mode[self.depth_map.texture_id]]_vars

\* C20 witness: a frame was rendered with the flag true after a frame with
\* the flag false: the comparison was disabled when the call began and is
\* enabled at the draw of the main pass.
C20_Witness ==
    /\ call.op = "render"
    /\ self.attributes.replace_shadows_with_hatching
    /\ gl.trace[1].at.compare_mode[self.hatch_map.texture_id] = "NONE"
    /\ gl.trace[Greatest(DrawIndices(gl))].at.compare_mode[self.hatch_map.texture_id] = "COMPARE_REF_TO_TEXTURE"
    /\ gl.compare_mode[self.depth_map.texture_id] = "COMPARE_REF_TO_TEXTURE"

\* C21: when render returns, no texture is bound at unit 0 or at unit 1, no
\* vertex array is bound, no buffer is bound to the element-array target,
\* and the default framebuffer is bound.
C21_BindingsAfterRender ==
    call.op = "render" =>
        /\ gl.texture_2d[0] = 0
        /\ gl.texture_2d[1] = 0
        /\ gl.vertex_array = 0
        /\ BoundBuffer(gl, "ELEMENT_ARRAY_BUFFER") = 0
        /\ gl.element_array_buffer[self.vao] = 0
        /\ gl.framebuffer = 0

\* C21 witness: render has returned from a frame whose main pass drew with
\* both textures, the vertex array and the index buffer bound.
C21_Witness ==
    /\ call.op = "render"
    /\ gl.trace[Greatest(DrawIndices(gl))].at.texture_2d[0] # 0
    /\ gl.trace[Greatest(DrawIndices(gl))].at.texture_2d[1] # 0
    /\ gl.trace[Greatest(DrawIndices(gl))].at.vertex_array = self.vao
    /\ gl.trace[Greatest(DrawIndices(gl))].at.element_array_buffer = self.ibo
    /\ gl.texture_2d = [u \in 0 .. 1 |-> 0]
    /\ gl.vertex_array = 0

\* C22: in every render call the draws of the shadow pass and of the hatch
\* pass happen with face culling disabled, blending disabled and depth
\* testing enabled with the function LESS, and the draw of the main pass
\* happens with culling of back faces enabled.
C22_CapabilitiesOfEachPass ==
    call.op = "render" =>
        /\ Len(Draws(gl)) = 3
        /\ \A i \in 1 .. 2 :
            /\ ~Draws(gl)[i].at.cull_face
            /\ ~Draws(gl)[i].at.blend
            /\ Draws(gl)[i].at.depth_test
            /\ Draws(gl)[i].at.depth_func = "LESS"
        /\ Draws(gl)[3].at.cull_face
        /\ Draws(gl)[3].at.cull_mode = "BACK"

\* C22 witness: a frame was rendered after another one, whose main pass had
\* set the viewport of the window and left face culling enabled, and drew
\* its two depth passes with face culling disabled.
C22_Witness ==
    /\ call.op = "render"
    /\ gl.trace[1].at.viewport \in Viewports
    /\ ~Draws(gl)[1].at.cull_face
    /\ ~Draws(gl)[2].at.cull_face
    /\ Draws(gl)[3].at.cull_face

\* C23: in every render call the light-space matrix uploaded to the main
\* program is the one uploaded to the shadow program in that call, and the
\* hatch-space matrix uploaded to the main program is the one uploaded to
\* the hatching program in that call; both are the matrices of the stored
\* snapshot and of the viewport of the call, and the main program holds them
\* at its draw.
C23_MatricesOfTheFrame ==
    call.op = "render" =>
        /\ UploadIndices(gl, self.program, "light_space_matrix") # {}
        /\ UploadIndices(gl, self.program, "hatch_space_matrix") # {}
        /\ \A i \in UploadIndices(gl, self.program, "light_space_matrix") :
            /\ i < Greatest(DrawIndices(gl))
            /\ gl.trace[i].value = LightSpaceMatrix(LightOf(self.attributes))
            /\ \E j \in UploadIndices(gl, self.shadow_program, "lightSpaceMatrix") :
                j < i /\ gl.trace[j].value = gl.trace[i].value
        /\ \A i \in UploadIndices(gl, self.program, "hatch_space_matrix") :
            /\ i < Greatest(DrawIndices(gl))
            /\ gl.trace[i].value = HatchSpaceMatrix(call.arg, self.attributes.camera_position)
            /\ \E j \in UploadIndices(gl, self.hatching_program, "projection_matrix") :
                j < i /\ gl.trace[j].value = gl.trace[i].value
        /\ gl.uniforms[self.program]["light_space_matrix"] = gl.uniforms[self.shadow_program]["lightSpaceMatrix"]
        /\ gl.uniforms[self.program]["hatch_space_matrix"] = gl.uniforms[self.hatching_program]["projection_matrix"]

\* C23 witness: a frame was rendered in the square window with the light
\* position edited, after a frame in the other window had left its matrices
\* in the uniforms of the main program.
C23_Witness ==
    /\ call.op = "render"
    /\ call.arg = <<600, 600>>
    /\ gl.trace[1].at.viewport = <<800, 600>>
    /\ self.attributes.light_position # DefaultAttributes.light_position
    /\ gl.uniforms[self.program]["light_space_matrix"] = LightSpaceMatrix(LightOf(self.attributes))
    /\ gl.uniforms[self.program]["hatch_space_matrix"] = HatchSpaceMatrix(<<600, 600>>, self.attributes.camera_position)

C25_SecondCallCatchesUp ==
    (/\ call.op = "build_ui"
     /\ Len(call.ret) >= 2
     /\ call.ret[Len(call.ret)] = call.ret[Len(call.ret) - 1]) =>
        /\ get_attributes(self) = call.ret[Len(call.ret)]
        /\ \A f \in F32Uniforms :
            gl.uniforms[self.program][f] = AttributeUniformValue(get_attributes(self), f)

\* C25 witness: a click on a preset that changed distance_shading_power, in
\* a frame whose widgets edited nothing: apply_preset gave the preset to
\* set_attributes, which did not upload the new power, and the end of the
\* frame gave it again, which did.
C25_Witness ==
    /\ call.op = "build_ui"
    /\ call.arg = [clicked |-> "Aerial", edit |-> <<>>]
    /\ Len(call.ret) = 3
    /\ call.ret[1].distance_shading_power = 4
    /\ call.ret[2] = call.ret[3]
    /\ Cardinality(UploadIndices(gl, self.program, "distance_shading_power")) = 1
    /\ gl.uniforms[self.program]["distance_shading_power"] = <<6>>

\* C26: in every render there is one draw with the hatching program in use,
\* and at that draw the projection_matrix uniform of the hatching program
\* holds the hatch-space matrix of this frame (of the viewport of the call
\* and the camera of the snapshot): the last upload to it before the draw
\* carries that matrix and was made with the hatching program in use, and
\* the uniform still holds it when render returns.  This holds after
\* set_attributes has written the camera's projection matrix to the same
\* uniform and after a hot reload of the hatching program.
C26_HatchPassMatrix ==
    call.op = "render" =>
        LET hatching_program == self.hatching_program
            matrix == HatchSpaceMatrix(call.arg, self.attributes.camera_position)
            draws == {d \in DrawIndices(gl) : gl.trace[d].at.used = hatching_program}
        IN /\ Cardinality(draws) = 1
           /\ \A d \in draws :
                LET before == {i \in UploadIndices(gl, hatching_program, "projection_matrix") : i < d}
                IN /\ before # {}
                   /\ gl.trace[Greatest(before)].value = matrix
                   /\ gl.trace[Greatest(before)].at.used = hatching_program
           /\ gl.uniforms[hatching_program]["projection_matrix"] = matrix

\* C26 witness: a frame was rendered by a hatching program built in a hot
\* reload, after set_attributes had uploaded another projection matrix of
\* the camera.
C26_Witness ==
    /\ call.op = "render"
    /\ self.hatching_program > NumInitialPrograms
    /\ self.attributes.projection_matrix # DefaultAttributes.projection_matrix
    /\ gl.uniforms[self.hatching_program]["projection_matrix"] = HatchSpaceMatrix(call.arg, self.attributes.camera_position)

\* C27: at each of the three draw calls of render the vertex array of the
\* mesh is bound and the index buffer of the mesh is bound to the
\* element-array target of that vertex array, although Model::new unbound
\* the index buffer while the vertex array was bound and every render
\* unbinds both before it returns.
C27_MeshBoundAtEveryDraw ==
    call.op = "render" =>
        /\ Cardinality(DrawIndices(gl)) = 3
        /\ \A d \in DrawIndices(gl) :
            /\ gl.trace[d].at.vertex_array = self.vao
            /\ gl.trace[d].at.element_array_buffer = self.ibo
            /\ self.vao # 0
            /\ self.ibo # 0

\* C27 witness: a frame rendered after an earlier frame, which had unbound
\* the index buffer and the vertex array; the vertex array holds no index
\* buffer when render returns.
C27_Witness ==
    /\ call.op = "render"
    /\ gl.trace[1].at.viewport \in Viewports
    /\ gl.vertex_array = 0
    /\ gl.element_array_buffer[self.vao] = 0
    /\ \A d \in DrawIndices(gl) : gl.trace[d].at.element_array_buffer = self.ibo

\* C28: a call of check_shader_update makes at most one rebuild attempt and
\* replaces at most one of the three programs; it returns true exactly when
\* it replaced one; and in every outcome (no match, failed rebuild,
\* successful rebuild) the stored snapshot and every other field of the
\* Model are as before.
C28_AtMostOneReplaced ==
    [][call'.op = "check_shader_update" =>
        LET replaced == {field \in {"program", "shadow_program", "hatching_program"} : self'[field] # self[field]}
        IN /\ Len(Rebuilds(gl')) <= 1
           /\ Cardinality(replaced) <= 1
           /\ call'.ret = (Cardinality(replaced) = 1)
           /\ get_attributes(self') = get_attributes(self)
           /\ \A field \in DOMAIN self \ replaced : self'[field] = self[field]]_vars

\* C28 witness: check_shader_update has returned true from a rebuild of the
\* shadow program, with the two other programs those of construction and a
\* snapshot that was edited after construction.
C28_Witness ==
    /\ call.op = "check_shader_update"
    /\ call.ret
    /\ self.shadow_program > NumInitialPrograms
    /\ self.program <= NumInitialPrograms
    /\ self.hatching_program <= NumInitialPrograms
    /\ get_attributes(self) # ConstructedAttributes(self)

\* C29: when Texture::unbind has returned, after any calls of bind and
\* bind_to on that texture, the texture is bound at no texture unit, also
\* when it had been bound to a unit other than its home unit.
C29_UnbindClearsEveryUnit ==
    call.op = "Texture::unbind" =>
        \A texture_unit \in DOMAIN gl.texture_2d : gl.texture_2d[texture_unit] # call.arg.texture.texture_id

\* C30: a drop of a Buffer, a VertexArray or a FrameBuffer leaves another
\* live object of the same kind bound, when one was bound.
C30_DropKeepsOtherBinding ==
    [][call'.op = "drop" =>
        LET kind == call'.arg.kind
            bound == BoundObject(gl, kind)
        IN (bound # 0 /\ bound # call'.arg.id /\ bound \in LiveObjects(gl', kind)) =>
                BoundObject(gl', kind) = bound]_vars
====
